---------------------------- MODULE Spec2Model ----------------------------
(***************************************************************************)
(* Model of the snake game of src/src/main.rs: the Position / Direction    *)
(* arithmetic, Snake::update, the GameState session (update and            *)
(* key_down_event of the ggez EventHandler).                               *)
(*                                                                         *)
(* Spec      the game session from GameState::new on, under any            *)
(*           interleaving of simulation ticks and key presses.             *)
(* MoveSpec  Position::new_from_move and Direction::inverse applied to     *)
(*           every board position and direction.                           *)
(***************************************************************************)
EXTENDS Integers, Sequences, FiniteSets

VARIABLES
    over,   \* GameState.over
    rng,    \* GameState.rng: the two integers its latest pair of rand_range calls returned
    snake,  \* GameState.snake: [head, body, dir, last_dir, next_dir, touched]
    food,   \* GameState.food
    probe   \* MoveSpec only: a position p, a direction d, the position q computed from them

vars == <<over, rng, snake, food, probe>>

-----------------------------------------------------------------------------
(* Constants and value types *)

\* const BOARD: (i16, i16) = (40, 40)
BOARD == <<40, 40>>

\* enum Direction
Direction == {"Up", "Down", "Left", "Right"}

\* KeyCode: the four arrow keys and any other key
KeyCode == Direction \cup {"Other"}

\* The cells of the board, [0, BOARD.0) x [0, BOARD.1)
BoardCells == [x : 0 .. (BOARD[1] - 1), y : 0 .. (BOARD[2] - 1)]

\* Position::new
PositionNew(x, y) == [x |-> x, y |-> y]

\* i16::rem_euclid for a positive modulus: the result is in 0 .. n-1
RemEuclid(a, n) == a % n

\* The truncating remainder (Rust's %), whose sign follows the dividend
RemTrunc(a, n) == IF a < 0 THEN 0 - ((0 - a) % n) ELSE a % n

\* Position::new_from_move with % where the code has rem_euclid
NewFromMoveTrunc(pos, dir) ==
    CASE dir = "Up"    -> PositionNew(pos.x, RemTrunc(pos.y - 1, BOARD[2]))
      [] dir = "Down"  -> PositionNew(pos.x, RemTrunc(pos.y + 1, BOARD[2]))
      [] dir = "Left"  -> PositionNew(RemTrunc(pos.x - 1, BOARD[1]), pos.y)
      [] dir = "Right" -> PositionNew(RemTrunc(pos.x + 1, BOARD[1]), pos.y)

\* Position::new_from_move
NewFromMove(pos, dir) ==
    CASE dir = "Up"    -> PositionNew(pos.x, RemEuclid(pos.y - 1, BOARD[2]))
      [] dir = "Down"  -> PositionNew(pos.x, RemEuclid(pos.y + 1, BOARD[2]))
      [] dir = "Left"  -> PositionNew(RemEuclid(pos.x - 1, BOARD[1]), pos.y)
      [] dir = "Right" -> PositionNew(RemEuclid(pos.x + 1, BOARD[1]), pos.y)

\* impl From<(i16, i16)> for Position: x is pos.0, y is the literal 1
FromPair(pos) == [x |-> pos[1], y |-> 1]

\* Rand32::rand_range(0..max): an integer of [0, max)
RandRange(max) == 0 .. (max - 1)

\* Position::random, rx and ry being what the two rand_range calls returned
PositionRandom(rx, ry) == FromPair(<<rx, ry>>)

\* Direction::inverse with the Right arm returning Right
InverseRightStays(dir) ==
    CASE dir = "Up"    -> "Down"
      [] dir = "Down"  -> "Up"
      [] dir = "Left"  -> "Right"
      [] dir = "Right" -> "Right"

\* Direction::inverse
Inverse(dir) ==
    CASE dir = "Up"    -> "Down"
      [] dir = "Down"  -> "Up"
      [] dir = "Left"  -> "Right"
      [] dir = "Right" -> "Left"

\* Direction::from_key: Some(direction) for an arrow key, None otherwise
FromKey(key) == IF key \in Direction THEN key ELSE "None"

-----------------------------------------------------------------------------
(* Snake *)

\* LinkedList::push_back where the code has push_front
PushBack(body, seg) == body \o <<seg>>

\* LinkedList::push_front
PushFront(body, seg) == <<seg>> \o body

\* LinkedList::pop_back (nothing to remove from an empty list)
PopBack(body) == IF Len(body) = 0 THEN body ELSE SubSeq(body, 1, Len(body) - 1)

\* Snake::new with the body segment one cell to the right of the head
SnakeNewBodyRight(pos) ==
    [head     |-> pos,
     body     |-> <<FromPair(<<pos.x + 1, pos.y>>)>>,
     dir      |-> "Right",
     last_dir |-> "Right",
     next_dir |-> "None",
     touched  |-> "None"]

\* Snake::new
SnakeNew(pos) ==
    [head     |-> pos,
     body     |-> <<FromPair(<<pos.x - 1, pos.y>>)>>,
     dir      |-> "Right",
     last_dir |-> "Right",
     next_dir |-> "None",
     touched  |-> "None"]

\* Snake::ate_food
AteFood(s, f) == s.head = f

\* Snake::eats_body that skips the front of the body (the newly pushed head)
EatsBodyBehindFront(s) == \E i \in DOMAIN s.body : i > 1 /\ s.body[i] = s.head

\* Snake::eats_body
EatsBody(s) == \E i \in DOMAIN s.body : s.body[i] = s.head

\* The commit of Snake::update without the test last_dir == dir
CommitDirAlways(s) ==
    IF s.next_dir # "None" THEN s.next_dir ELSE s.dir

\* Snake::update, lines 139-142: the direction the update moves in
CommitDir(s) ==
    IF s.last_dir = s.dir /\ s.next_dir # "None" THEN s.next_dir ELSE s.dir

\* Snake::update, line 144: the position computed for the new head
NewHeadPos(s) == NewFromMove(s.head, CommitDir(s))

\* Snake::update with the food test ahead of the body test
SnakeUpdateFoodFirst(s, f) ==
    LET committed == s.last_dir = s.dir /\ s.next_dir # "None"
        new_head  == NewHeadPos(s)
        s1 == [s EXCEPT !.dir      = CommitDir(s),
                        !.next_dir = IF committed THEN "None" ELSE @,
                        !.body     = PushFront(@, new_head),
                        !.head     = new_head]
        t  == IF AteFood(s1, f) THEN "Food"
              ELSE IF EatsBody(s1) THEN "Body"
              ELSE "None"
    IN  [s1 EXCEPT !.touched  = t,
                   !.body     = IF t = "None" THEN PopBack(@) ELSE @,
                   !.last_dir = s1.dir]

\* Snake::update that pushes the previous head onto the body, not the new one
SnakeUpdatePushesOldHead(s, f) ==
    LET committed == s.last_dir = s.dir /\ s.next_dir # "None"
        new_head  == NewHeadPos(s)
        s1 == [s EXCEPT !.dir      = CommitDir(s),
                        !.next_dir = IF committed THEN "None" ELSE @,
                        !.body     = PushFront(@, s.head),
                        !.head     = new_head]
        t  == IF EatsBody(s1) THEN "Body"
              ELSE IF AteFood(s1, f) THEN "Food"
              ELSE "None"
    IN  [s1 EXCEPT !.touched  = t,
                   !.body     = IF t = "None" THEN PopBack(@) ELSE @,
                   !.last_dir = s1.dir]

\* Snake::update
SnakeUpdate(s, f) ==
    LET committed == s.last_dir = s.dir /\ s.next_dir # "None"
        new_head  == NewHeadPos(s)
        s1 == [s EXCEPT !.dir      = CommitDir(s),
                        !.next_dir = IF committed THEN "None" ELSE @,
                        !.body     = PushFront(@, new_head),
                        !.head     = new_head]
        t  == IF EatsBody(s1) THEN "Body"
              ELSE IF AteFood(s1, f) THEN "Food"
              ELSE "None"
    IN  [s1 EXCEPT !.touched  = t,
                   !.body     = IF t = "None" THEN PopBack(@) ELSE @,
                   !.last_dir = s1.dir]

-----------------------------------------------------------------------------
(* GameState *)

\* The probe while the game runs: unused
ProbeIdle == [stage |-> "idle", p |-> PositionNew(0, 0), d |-> "Right", q |-> PositionNew(0, 0)]

\* GameState::new, rx and ry being the two integers the seeded generator returns
GameStateNew(rx, ry) ==
    /\ snake = SnakeNew(FromPair(<<BOARD[1] \div 4, BOARD[2] \div 2>>))
    /\ rng = [x |-> rx, y |-> ry]
    /\ food = PositionRandom(rx, ry)
    /\ over = FALSE

Init ==
    /\ \E rx \in RandRange(BOARD[1]), ry \in RandRange(BOARD[2]) : GameStateNew(rx, ry)
    /\ probe = ProbeIdle

\* The tick of GameState::update relocating the food on any touched event
TickRelocatesOnBody ==
    LET s == SnakeUpdate(snake, food) IN
    /\ snake' = s
    /\ over' = IF s.touched = "Body" THEN TRUE ELSE over
    /\ IF s.touched # "None"
       THEN \E rx \in RandRange(BOARD[1]), ry \in RandRange(BOARD[2]) :
                /\ rng' = [x |-> rx, y |-> ry]
                /\ food' = PositionRandom(rx, ry)
       ELSE UNCHANGED <<rng, food>>
    /\ UNCHANGED probe

\* GameState::update, lines 201-210: one simulation tick of a running session
Tick ==
    LET s == SnakeUpdate(snake, food) IN
    /\ snake' = s
    /\ over' = IF s.touched = "Body" THEN TRUE ELSE over
    /\ IF s.touched = "Food"
       THEN \E rx \in RandRange(BOARD[1]), ry \in RandRange(BOARD[2]) :
                /\ rng' = [x |-> rx, y |-> ry]
                /\ food' = PositionRandom(rx, ry)
       ELSE UNCHANGED <<rng, food>>
    /\ UNCHANGED probe

\* GameState::update without the test of self.over
UpdateUnguarded == Tick

\* GameState::update: one iteration of its loop
Update == IF ~over THEN Tick ELSE UNCHANGED vars

\* GameState::key_down_event that also clears self.over
KeyDownEventRestart(key) ==
    LET dir == FromKey(key) IN
    /\ snake' = IF dir = "None" THEN snake
                ELSE IF snake.dir # snake.last_dir /\ snake.dir # Inverse(dir)
                     THEN [snake EXCEPT !.next_dir = dir]
                     ELSE [snake EXCEPT !.dir = dir]
    /\ over' = FALSE
    /\ UNCHANGED <<rng, food, probe>>

\* GameState::key_down_event whose queue branch tests dir against the request
\* itself instead of its inverse
KeyDownEventNoInverse(key) ==
    LET dir == FromKey(key) IN
    /\ snake' = IF dir = "None" THEN snake
                ELSE IF snake.dir # snake.last_dir /\ snake.dir # dir
                     THEN [snake EXCEPT !.next_dir = dir]
                     ELSE [snake EXCEPT !.dir = dir]
    /\ UNCHANGED <<over, rng, food, probe>>

\* GameState::key_down_event whose direct-set branch also writes last_dir
KeyDownEventSetsLast(key) ==
    LET dir == FromKey(key) IN
    /\ snake' = IF dir = "None" THEN snake
                ELSE IF snake.dir # snake.last_dir /\ snake.dir # Inverse(dir)
                     THEN [snake EXCEPT !.next_dir = dir]
                     ELSE [snake EXCEPT !.dir = dir, !.last_dir = dir]
    /\ UNCHANGED <<over, rng, food, probe>>

\* GameState::key_down_event
KeyDownEvent(key) ==
    LET dir == FromKey(key) IN
    /\ snake' = IF dir = "None" THEN snake
                ELSE IF snake.dir # snake.last_dir /\ snake.dir # Inverse(dir)
                     THEN [snake EXCEPT !.next_dir = dir]
                     ELSE [snake EXCEPT !.dir = dir]
    /\ UNCHANGED <<over, rng, food, probe>>

\* A key press of any key
KeyDown == \E key \in KeyCode : KeyDownEvent(key)

Next == Update \/ KeyDown

Spec == Init /\ [][Next]_vars

-----------------------------------------------------------------------------
(* MoveSpec: new_from_move and inverse on every board position and direction *)

InitMove ==
    /\ GameStateNew(0, 0)
    /\ \E p \in BoardCells, d \in Direction :
           probe = [stage |-> "start", p |-> p, d |-> d, q |-> p]

\* q = new_from_move(p, d)
ProbeMove ==
    /\ probe.stage = "start"
    /\ probe' = [probe EXCEPT !.q = NewFromMove(probe.p, probe.d), !.stage = "moved"]
    /\ UNCHANGED <<over, rng, snake, food>>

\* q = new_from_move(q, d.inverse())
ProbeBack ==
    /\ probe.stage = "moved"
    /\ probe' = [probe EXCEPT !.q = NewFromMove(probe.q, Inverse(probe.d)), !.stage = "back"]
    /\ UNCHANGED <<over, rng, snake, food>>

NextMove == ProbeMove \/ ProbeBack

MoveSpec == InitMove /\ [][NextMove]_vars

-----------------------------------------------------------------------------
(* Properties of a simulation tick *)

\* Whether position p is the position of a segment of body
InBody(p, body) == \E i \in DOMAIN body : body[i] = p

\* The food is drawn anew in this step
FoodRelocated ==
    \E rx \in RandRange(BOARD[1]), ry \in RandRange(BOARD[2]) :
        rng' = [x |-> rx, y |-> ry] /\ food' = PositionRandom(rx, ry)

\* C1. Food consumption: a tick of a running session whose new head position
\* is the food position and no segment of the body before the tick yields
\* touched = Food, leaves the session running, leaves the body the new head
\* followed by every segment it had (one longer, tail retained), puts the head
\* on the old food cell and relocates the food.
C1_FoodConsumption ==
    [][(/\ ~over
        /\ Update
        /\ NewHeadPos(snake) = food
        /\ ~InBody(NewHeadPos(snake), snake.body))
       => (/\ snake'.touched = "Food"
           /\ ~over'
           /\ Len(snake'.body) = Len(snake.body) + 1
           /\ snake'.body = <<food>> \o snake.body
           /\ snake'.head = food
           /\ FoodRelocated)]_vars

\* C2. Non-event tick: a tick of a running session whose new head position is
\* neither the food position nor a segment of the body before the tick yields
\* touched = None, removes the tail, keeps the body length, and leaves the
\* session running.
C2_NonEventTick ==
    [][(/\ ~over
        /\ Update
        /\ NewHeadPos(snake) # food
        /\ ~InBody(NewHeadPos(snake), snake.body))
       => (/\ snake'.touched = "None"
           /\ snake'.body = <<NewHeadPos(snake)>> \o PopBack(snake.body)
           /\ Len(snake'.body) = Len(snake.body)
           /\ ~over')]_vars

\* C3. A tick sets touched = Body, and the session goes from Running to Over,
\* only if the new head position is the position of a segment that was in the
\* body before the tick.
C3_OverOnlyOnSelfCollision ==
    [][(/\ ~over
        /\ Update
        /\ (snake'.touched = "Body" \/ over'))
       => InBody(NewHeadPos(snake), snake.body)]_vars

\* C4. Self-collision is detected: a tick of a running session whose new head
\* position is the position of a segment that was in the body before the tick
\* yields touched = Body and ends with over = true, the food left where it
\* was, also when the food is on that cell.
C4_SelfCollisionDetected ==
    [][(/\ ~over
        /\ Update
        /\ InBody(NewHeadPos(snake), snake.body))
       => (/\ snake'.touched = "Body"
           /\ over'
           /\ food' = food
           /\ rng' = rng)]_vars

\* C4 witness: the session is over after a tick that moved the head onto the
\* segment the body had before it, with the food on that same cell.
C4_Witness ==
    /\ over
    /\ snake.touched = "Body"
    /\ Len(snake.body) = 2
    /\ snake.body[2] = snake.head
    /\ food = snake.head

\* C5. Over is terminal: no step, tick or key press, sets over back to false.
C5_OverIsTerminal == [][over => over']_vars

\* C5 witness: the session is over and a key press has changed the direction
\* since the tick that ended it (a tick leaves dir = last_dir).
C5_Witness == over /\ snake.dir # snake.last_dir

\* C6. While the session is over, a simulation tick changes nothing: the
\* snake (head, body, dir, last_dir, next_dir, touched), the food and the
\* over flag are all as before.
C6_TickSkippedWhileOver ==
    [][(over /\ Update) => UNCHANGED <<snake, food, over, rng>>]_vars

\* C6 witness: the session is over, a tick is possible, and a direction is
\* queued that a tick that ran would have to deal with.
C6_Witness ==
    /\ over
    /\ ENABLED Update
    /\ snake.next_dir # "None"

-----------------------------------------------------------------------------
(* Properties of the board arithmetic *)

\* Whether position p is on the board
InBoard(p) == 0 <= p.x /\ p.x < BOARD[1] /\ 0 <= p.y /\ p.y < BOARD[2]

\* new_from_move keeps every board position on the board, for each direction
MoveStaysInBoard ==
    \A p \in BoardCells, d \in Direction : InBoard(NewFromMove(p, d))

\* new_from_move steps by one cell and wraps -1 to W-1 / H-1 and W / H to 0
MoveWraps ==
    \A p \in BoardCells :
        /\ NewFromMove(p, "Left") =
               PositionNew(IF p.x = 0 THEN BOARD[1] - 1 ELSE p.x - 1, p.y)
        /\ NewFromMove(p, "Right") =
               PositionNew(IF p.x = BOARD[1] - 1 THEN 0 ELSE p.x + 1, p.y)
        /\ NewFromMove(p, "Up") =
               PositionNew(p.x, IF p.y = 0 THEN BOARD[2] - 1 ELSE p.y - 1)
        /\ NewFromMove(p, "Down") =
               PositionNew(p.x, IF p.y = BOARD[2] - 1 THEN 0 ELSE p.y + 1)

\* C7. Board bounds: in every reachable state the head, every body segment
\* and the food are on the board, and new_from_move of a board position is
\* on the board for each direction, wrapping at the edges.
C7_BoardBounds ==
    /\ InBoard(snake.head)
    /\ \A i \in DOMAIN snake.body : InBoard(snake.body[i])
    /\ InBoard(food)
    /\ MoveStaysInBoard
    /\ MoveWraps

\* C7 witness: a tick has moved the head (the body holds it and the segment
\* from before) and the food is on the last column of the board.
C7_Witness ==
    /\ Len(snake.body) = 2
    /\ snake.body[1] = snake.head
    /\ food.x = BOARD[1] - 1

\* C8. Round trip: new_from_move(new_from_move(p, d), d.inverse()) = p for
\* every board position p and direction d.
C8_MoveRoundTrip == probe.stage = "back" => probe.q = probe.p

\* C8 witness: a round trip from the last column to the right, which wraps to
\* column 0 and back.
C8_Witness ==
    /\ probe.stage = "back"
    /\ probe.d = "Right"
    /\ probe.p.x = BOARD[1] - 1
    /\ probe.q = probe.p

\* C9. Position::random returns the position whose x is the first integer
\* drawn and whose y is the second, so that every cell of the board is a
\* possible food position.
C9_RandomPositionIsTheDraw == food = PositionNew(rng.x, rng.y)

\* C10. No instant reversal: the direction an executed tick moves the head in
\* (last_dir after the tick) is never the inverse of last_dir before it.
C10_NoInstantReversal ==
    [][(~over /\ Update) => snake'.last_dir # Inverse(snake.last_dir)]_vars

-----------------------------------------------------------------------------
(* Properties of input handling and of the turn commit *)

\* The snake after the turn-request policy is applied to a request for r
TurnRequested(s, r) ==
    IF s.dir # s.last_dir /\ r # Inverse(s.dir)
    THEN [s EXCEPT !.next_dir = r]
    ELSE [s EXCEPT !.dir = r]

\* C11. Turn-request policy: a key press mapped to direction r queues r as
\* next_dir, dir unchanged, if dir # last_dir and r is not the inverse of dir;
\* otherwise it sets dir to r, next_dir unchanged. Mid-turn, a request for the
\* inverse of dir is never queued. A key that maps to no direction changes
\* nothing.
C11_TurnRequestPolicy ==
    [][\A key \in KeyCode :
          KeyDownEvent(key) =>
              /\ key \in Direction => snake' = TurnRequested(snake, key)
              /\ (key \in Direction /\ snake.dir # snake.last_dir
                      /\ key = Inverse(snake.dir))
                     => (snake'.next_dir = snake.next_dir /\ snake'.dir = key)
              /\ key \notin Direction => UNCHANGED vars]_vars

\* C11 witness: a running session mid-turn: a key press has set dir directly
\* (dir # last_dir) and a later one has queued next_dir.
C11_Witness ==
    /\ ~over
    /\ snake.dir # snake.last_dir
    /\ snake.next_dir # "None"

\* C12. Input handling is reactive: a key press, Running or Over, leaves head,
\* body, last_dir, touched, the food and the over flag unchanged.
C12_KeyPressFrame ==
    [][KeyDown =>
          /\ snake'.head = snake.head
          /\ snake'.body = snake.body
          /\ snake'.last_dir = snake.last_dir
          /\ snake'.touched = snake.touched
          /\ UNCHANGED <<food, over, rng>>]_vars

\* C12 witness: the session is over and key presses after the tick that ended
\* it have both set the direction and queued one.
C12_Witness ==
    /\ over
    /\ snake.dir # snake.last_dir
    /\ snake.next_dir # "None"

\* Whether an update of snake s adopts the queued direction
Adopts(s) == s.last_dir = s.dir /\ s.next_dir # "None"

-----------------------------------------------------------------------------
(* Properties of the session's start and of the body *)

\* C14. Initial state: the snake is a head plus exactly one body segment, one
\* cell to the left of the head on the same row, the head not in the body,
\* with dir = Right, last_dir = Right, no next_dir, touched = None, and over =
\* false.
C14_InitialState ==
    /\ Len(snake.body) = 1
    /\ snake.body[1] = PositionNew(snake.head.x - 1, snake.head.y)
    /\ ~InBody(snake.head, snake.body)
    /\ snake.dir = "Right"
    /\ snake.last_dir = "Right"
    /\ snake.next_dir = "None"
    /\ snake.touched = "None"
    /\ over = FALSE
    /\ [][TRUE]_vars

\* C14 witness: the state GameState::new returns, no key pressed yet.
C14_Witness ==
    /\ ~over
    /\ Len(snake.body) = 1
    /\ snake.head.x = snake.body[1].x + 1
    /\ snake.dir = "Right"
    /\ snake.next_dir = "None"
    /\ snake.touched = "None"

\* C15. Body ordering: after every snake update the body is the new head
\* followed by the segments it had before, in their order, the last one
\* removed if and only if touched is None.
C15_BodyOrdering ==
    [][(~over /\ Update) =>
          /\ snake'.head = NewHeadPos(snake)
          /\ snake'.body =
                 IF snake'.touched = "None"
                 THEN <<snake'.head>> \o SubSeq(snake.body, 1, Len(snake.body) - 1)
                 ELSE <<snake'.head>> \o snake.body]_vars

\* C15 witness: after the update the body is the new head followed by the
\* segment the snake started with, one cell left of the start column.
C15_Witness ==
    /\ snake.touched = "Body"
    /\ Len(snake.body) = 2
    /\ snake.body[1] = snake.head
    /\ snake.body[2].x = (BOARD[1] \div 4) - 1

\* C16. The food position changes only in a tick whose touched result is
\* Food: key presses, ticks with touched None or Body, and ticks skipped
\* while over leave it unchanged.
C16_FoodChangesOnlyOnFood ==
    [][food' # food => (~over /\ Update /\ snake'.touched = "Food")]_vars

\* C16 witness: a tick with touched = Body and a later key press have happened
\* and the food is still the position drawn at game start.
C16_Witness ==
    /\ over
    /\ snake.touched = "Body"
    /\ snake.dir # snake.last_dir
    /\ food = PositionRandom(rng.x, rng.y)
    /\ food # snake.head

\* C17. Start position: at game start the head is at (BOARD.0 / 4, BOARD.1 /
\* 2) = (10, 20) and the single body segment at (9, 20), a Position built from
\* a pair having the pair's coordinates.
C17_StartPosition ==
    /\ snake.head = PositionNew(BOARD[1] \div 4, BOARD[2] \div 2)
    /\ snake.body = <<PositionNew((BOARD[1] \div 4) - 1, BOARD[2] \div 2)>>
    /\ [][TRUE]_vars

C19_HeadIsFrontOfBody ==
    /\ ~InBody(snake.head, snake.body)
    /\ [][/\ (~over /\ Update) => snake'.head = snake'.body[1]
          /\ snake.head = snake.body[1] => snake'.head = snake'.body[1]]_vars

\* C19 witness: an update has run, key presses have followed it, and the head
\* is the front of the body.
C19_Witness ==
    /\ over
    /\ snake.head = snake.body[1]
    /\ snake.next_dir # "None"
    /\ snake.dir # snake.last_dir
    /\ snake.body[2] # snake.head

=============================================================================
